---------------------------- MODULE Spec2Model ----------------------------
(***************************************************************************)
(* A model of the Traefik AWS Lambda middleware (src/main.go).             *)
(*                                                                         *)
(* The handler turns an inbound HTTP request into a LambdaRequest          *)
(* envelope, invokes the configured function and projects the returned     *)
(* LambdaResponse onto the outbound http.ResponseWriter.                   *)
(*                                                                         *)
(* Representation of Go values:                                            *)
(*   - a Go string used as an opaque token (method, path, query and header *)
(*     values) is a TLA+ string;                                           *)
(*   - a body (request body, envelope body) is a sequence of bytes 0..255; *)
(*   - a header name is a sequence of one-character strings, so that       *)
(*     http.Header's canonicalisation can be computed on it;               *)
(*   - a Go map is a function whose DOMAIN is the set of its keys;         *)
(*   - a value of dynamic type (interface{}) is a record carrying its      *)
(*     reflect.Kind.                                                       *)
(***************************************************************************)
EXTENDS Integers, Sequences, FiniteSets, TLC

VARIABLES
    a,        \* the *AwsLambdaPlugin built by New: next, functionArn, name, client
    req,      \* req[r]: the inbound *http.Request of request r
    pc,       \* pc[r]: where ServeHTTP stands for request r
    local,    \* local[r]: ServeHTTP's locals (base64Encoded, body, request, resp)
    todo,     \* todo[r]: keys the two range loops of ServeHTTP have not visited yet
    rw,       \* rw[r]: the outbound http.ResponseWriter of request r
    log,      \* log[r]: the calls made on rw[r], in order
    consumed, \* consumed[r]: the bytes io.Copy has read from req[r].Body
    calls,    \* the client.Invoke calls received by the backend, in order
    fatal,    \* fatal[r]: which panic aborted request r, "" when none
    fnIn,     \* argument of the function under test (the pure-function specifications)
    fnOut,    \* its result
    fnName    \* which function was applied, "" before the call

vars == <<a, req, pc, local, todo, rw, log, consumed, calls, fatal, fnIn, fnOut, fnName>>

serveVars == <<a, req, pc, local, todo, rw, log, consumed, calls, fatal>>
fnVars == <<fnIn, fnOut, fnName>>

None == [none |-> TRUE]

(***************************************************************************)
(* Bounds of the model.                                                    *)
(***************************************************************************)
\* longest slice handed to the value coercion
MaxSliceLen == 2
\* most values one query parameter or header name carries
MaxValues == 3
\* longest request body handed to bodyToBase64
MaxBodyLen == 3

(***************************************************************************)
(* Generic helpers.                                                        *)
(***************************************************************************)
SeqsUpTo(S, n) == UNION {[1..k -> S] : k \in 0..n}

\* all Go maps with keys among K and values in V
MapsOver(K, V) == UNION {[D -> V] : D \in SUBSET K}

EmptyMap == [k \in {} |-> None]

RECURSIVE Flatten(_)
Flatten(ss) == IF ss = <<>> THEN <<>> ELSE Head(ss) \o Flatten(Tail(ss))

(***************************************************************************)
(* strconv.FormatInt / FormatUint / FormatFloat, as called by              *)
(* valueToString.                                                          *)
(***************************************************************************)
DigitChar(d) == <<"0", "1", "2", "3", "4", "5", "6", "7", "8", "9">>[d + 1]

RECURSIVE FormatUint(_)
FormatUint(n) ==
    IF n < 10 THEN DigitChar(n) ELSE FormatUint(n \div 10) \o DigitChar(n % 10)

FormatInt(n) == IF n < 0 THEN "-" \o FormatUint(0 - n) ELSE FormatUint(n)

\* strconv.FormatFloat(f, 'f', 4, _). A float is held as an integer number of
\* 10^-5 units, one digit more than the precision 4; the result is rounded to
\* nearest, ties to even, keeps the sign and has four fraction digits.
FormatFloat(units) ==
    LET m    == IF units < 0 THEN 0 - units ELSE units
        lo   == m \div 10
        last == m % 10
        q    == IF last > 5 \/ (last = 5 /\ lo % 2 = 1) THEN lo + 1 ELSE lo
        frac == q % 10000
        pad  == IF frac < 10 THEN "000" ELSE IF frac < 100 THEN "00"
                ELSE IF frac < 1000 THEN "0" ELSE ""
    IN  (IF units < 0 THEN "-" ELSE "") \o FormatUint(q \div 10000) \o "."
            \o pad \o FormatUint(frac)

(***************************************************************************)
(* Value coercion: valueToString and valuesToStrings.                      *)
(*                                                                         *)
(* A scalar is [kind |-> K, v |-> value]; a slice is                       *)
(* [kind |-> "Slice", elem |-> K, items |-> <<...>>].                      *)
(***************************************************************************)
IntKinds == {"Int", "Int8", "Int16", "Int32", "Int64"}
UintKinds == {"Uint", "Uint8", "Uint16", "Uint32", "Uint64"}
FloatKinds == {"Float32", "Float64"}

\* the element kinds the switch of valuesToStrings accepts (lines 264-266)
SliceElemKinds ==
    IntKinds \cup {"Uint", "Uint8", "Uint16", "Uint32"} \cup FloatKinds \cup {"String"}

RECURSIVE valueToString(_), valuesToStrings(_)

valueToString(f) ==
    CASE f.kind \in IntKinds   -> [s |-> FormatInt(f.v), valid |-> TRUE]
      [] f.kind \in UintKinds  -> [s |-> FormatUint(f.v), valid |-> TRUE]
      [] f.kind \in FloatKinds -> [s |-> FormatFloat(f.v), valid |-> TRUE]
      [] f.kind = "String"     -> [s |-> f.v, valid |-> TRUE]
      [] f.kind = "Slice"      ->
            LET t == valuesToStrings(f)
            IN  IF ~t.valid \/ Len(t.v) # 1
                THEN [s |-> "", valid |-> FALSE]
                ELSE [s |-> t.v[1], valid |-> TRUE]
      [] OTHER                 -> [s |-> "", valid |-> FALSE]

valuesToStrings(f) ==
    IF f.kind # "Slice" THEN [v |-> <<>>, valid |-> FALSE]
    ELSE IF f.elem \in SliceElemKinds
    THEN LET conv == [i \in 1..Len(f.items) |-> valueToString(f.items[i])]
             keep == SelectSeq([i \in 1..Len(f.items) |-> i], LAMBDA i : conv[i].valid)
         IN  [v |-> [j \in 1..Len(keep) |-> conv[keep[j]].s], valid |-> TRUE]
    ELSE [v |-> <<>>, valid |-> FALSE]


(***************************************************************************)
(* Request Envelope Builder: query parameters and headers.                 *)
(***************************************************************************)
\* a []string seen through reflection
StringSlice(ss) ==
    [kind |-> "Slice", elem |-> "String",
     items |-> [i \in 1..Len(ss) |-> [kind |-> "String", v |-> ss[i]]]]

valuesToMap(i) ==
    [name \in {n \in DOMAIN i : valueToString(StringSlice(i[n])).valid}
        |-> valueToString(StringSlice(i[name])).s]

valuesToMultiMap_KeepsSingles(i) ==
    [name \in {n \in DOMAIN i : valuesToStrings(StringSlice(i[n])).valid}
        |-> valuesToStrings(StringSlice(i[name])).v]

valuesToMultiMap(i) ==
    [name \in {n \in DOMAIN i :
                LET t == valuesToStrings(StringSlice(i[n]))
                IN  ~(~t.valid \/ Len(t.v) = 1)}
        |-> valuesToStrings(StringSlice(i[name])).v]

headersToMap(h) ==
    [name \in {n \in DOMAIN h : ~(Len(h[n]) # 1)} |-> h[name][1]]

headersToMultiMap_OffByOne(h) ==
    [name \in {n \in DOMAIN h : ~(Len(h[n]) < 1)} |-> h[name]]

headersToMultiMap(h) ==
    [name \in {n \in DOMAIN h : ~(Len(h[n]) < 2)} |-> h[name]]

(***************************************************************************)
(* encoding/base64, StdEncoding: the RFC 4648 alphabet with '=' padding.   *)
(* Text is a sequence of ASCII codes.                                      *)
(***************************************************************************)
PadChar == 61

\* the character of sextet i (0..63): A-Z, a-z, 0-9, '+', '/'
EncodeChar(i) ==
    IF i < 26 THEN 65 + i
    ELSE IF i < 52 THEN 97 + (i - 26)
    ELSE IF i < 62 THEN 48 + (i - 52)
    ELSE IF i = 62 THEN 43 ELSE 47

IsAlphabetChar(c) == \E i \in 0..63 : EncodeChar(i) = c

DecodeChar(c) == CHOOSE i \in 0..63 : EncodeChar(i) = c

RECURSIVE EncodeToString(_)
EncodeToString(b) ==
    IF Len(b) = 0 THEN <<>>
    ELSE IF Len(b) = 1
    THEN <<EncodeChar(b[1] \div 4), EncodeChar((b[1] % 4) * 16), PadChar, PadChar>>
    ELSE IF Len(b) = 2
    THEN <<EncodeChar(b[1] \div 4),
           EncodeChar((b[1] % 4) * 16 + b[2] \div 16),
           EncodeChar((b[2] % 16) * 4), PadChar>>
    ELSE <<EncodeChar(b[1] \div 4),
           EncodeChar((b[1] % 4) * 16 + b[2] \div 16),
           EncodeChar((b[2] % 16) * 4 + b[3] \div 64),
           EncodeChar(b[3] % 64)>> \o EncodeToString(SubSeq(b, 4, Len(b)))

\* DecodeString ignores '\r' and '\n', wants whole quanta of four characters,
\* and accepts padding only as the last one or two characters of the input.
\* It is not strict: the unused low bits of a padded quantum are not checked.
StripNewlines(s) == SelectSeq(s, LAMBDA c : c \notin {10, 13})

DecodeValid(s) ==
    LET t == StripNewlines(s)
        n == Len(t)
    IN  /\ n % 4 = 0
        /\ \A i \in 1..n :
              \/ IsAlphabetChar(t[i])
              \/ /\ t[i] = PadChar
                 /\ \/ i = n
                    \/ i = n - 1 /\ t[n] = PadChar

RECURSIVE DecodeQuanta(_)
DecodeQuanta(t) ==
    IF Len(t) = 0 THEN <<>>
    ELSE LET c1 == DecodeChar(t[1])
             c2 == DecodeChar(t[2])
         IN  IF t[3] = PadChar
             THEN <<c1 * 4 + c2 \div 16>>
             ELSE LET c3 == DecodeChar(t[3])
                  IN  IF t[4] = PadChar
                      THEN <<c1 * 4 + c2 \div 16, (c2 % 16) * 16 + c3 \div 4>>
                      ELSE <<c1 * 4 + c2 \div 16, (c2 % 16) * 16 + c3 \div 4,
                             (c3 % 4) * 64 + DecodeChar(t[4])>>
                           \o DecodeQuanta(SubSeq(t, 5, Len(t)))

DecodeString(s) ==
    IF DecodeValid(s)
    THEN [err |-> FALSE, buf |-> DecodeQuanta(StripNewlines(s))]
    ELSE [err |-> TRUE, buf |-> <<>>]

(***************************************************************************)
(* bodyToBase64. rq is the request; copied is what io.Copy moved into the  *)
(* encoder and copyErr whether it returned an error. encoder.Close writes  *)
(* to a bytes.Buffer and cannot fail.                                      *)
(***************************************************************************)
bodyToBase64_PositiveOnly(rq, copied, copyErr) ==
    IF rq.ContentLength > 0
    THEN IF copyErr
         THEN [panic |-> TRUE, base64Encoded |-> FALSE, body |-> <<>>]
         ELSE [panic |-> FALSE, base64Encoded |-> TRUE, body |-> EncodeToString(copied)]
    ELSE [panic |-> FALSE, base64Encoded |-> FALSE, body |-> <<>>]

bodyToBase64(rq, copied, copyErr) ==
    IF rq.ContentLength # 0
    THEN IF copyErr
         THEN [panic |-> TRUE, base64Encoded |-> FALSE, body |-> <<>>]
         ELSE [panic |-> FALSE, base64Encoded |-> TRUE, body |-> EncodeToString(copied)]
    ELSE [panic |-> FALSE, base64Encoded |-> FALSE, body |-> <<>>]

(***************************************************************************)
(* net/http: url.Values from the raw query, and http.Header's Set and Add, *)
(* which store a name under its canonical form.                            *)
(***************************************************************************)
\* req.URL.Query(): the raw query is a sequence of <<name, value>> pairs; each
\* name maps to its values in order of appearance (never to an empty list)
ParseQuery(raw) ==
    [k \in {raw[i][1] : i \in DOMAIN raw} |->
        LET hits == SelectSeq(raw, LAMBDA p : p[1] = k)
        IN  [j \in 1..Len(hits) |-> hits[j][2]]]

LowerCase == <<"a", "b", "c", "d", "e", "f", "g", "h", "i", "j", "k", "l", "m",
               "n", "o", "p", "q", "r", "s", "t", "u", "v", "w", "x", "y", "z">>
UpperCase == <<"A", "B", "C", "D", "E", "F", "G", "H", "I", "J", "K", "L", "M",
               "N", "O", "P", "Q", "R", "S", "T", "U", "V", "W", "X", "Y", "Z">>

ToUpper(c) ==
    IF \E i \in 1..26 : LowerCase[i] = c
    THEN UpperCase[CHOOSE i \in 1..26 : LowerCase[i] = c] ELSE c

ToLower(c) ==
    IF \E i \in 1..26 : UpperCase[i] = c
    THEN LowerCase[CHOOSE i \in 1..26 : UpperCase[i] = c] ELSE c

\* textproto.CanonicalMIMEHeaderKey on a name of letters and hyphens: the
\* first letter and every letter after a hyphen upper case, the rest lower
CanonicalMIMEHeaderKey(k) ==
    [i \in 1..Len(k) |->
        IF i = 1 \/ k[i - 1] = "-" THEN ToUpper(k[i]) ELSE ToLower(k[i])]

HeaderValues(h, k) ==
    IF CanonicalMIMEHeaderKey(k) \in DOMAIN h THEN h[CanonicalMIMEHeaderKey(k)] ELSE <<>>

HeaderSet(h, k, v) ==
    [n \in DOMAIN h \cup {CanonicalMIMEHeaderKey(k)} |->
        IF n = CanonicalMIMEHeaderKey(k) THEN <<v>> ELSE h[n]]

HeaderAdd(h, k, v) ==
    [n \in DOMAIN h \cup {CanonicalMIMEHeaderKey(k)} |->
        IF n = CanonicalMIMEHeaderKey(k) THEN Append(HeaderValues(h, k), v) ELSE h[n]]

RECURSIVE HeaderAddAll(_, _, _)
HeaderAddAll(h, k, vs) ==
    IF vs = <<>> THEN h ELSE HeaderAddAll(HeaderAdd(h, k, Head(vs)), k, Tail(vs))

(***************************************************************************)
(* Construction: Config, CreateConfig and New.                             *)
(***************************************************************************)
CreateConfig ==
    [AccessKey |-> "", SecretKey |-> "", Region |-> "", FunctionArn |-> "", Endpoint |-> ""]

\* lambda.New(sess, &aws.Config{...}): nil where the setting is empty
LambdaClient(config) ==
    [Region      |-> IF Len(config.Region) > 0 THEN config.Region ELSE None,
     Endpoint    |-> IF Len(config.Endpoint) > 0 THEN config.Endpoint ELSE None,
     Credentials |-> IF Len(config.AccessKey) > 0 /\ Len(config.SecretKey) > 0
                     THEN [AccessKey |-> config.AccessKey, SecretKey |-> config.SecretKey]
                     ELSE None]

New(next, config, name) ==
    IF Len(config.FunctionArn) = 0
    THEN [err |-> TRUE, handler |-> None]
    ELSE [err |-> FALSE,
          handler |-> [functionArn |-> config.FunctionArn,
                       client      |-> LambdaClient(config),
                       next        |-> next,
                       name        |-> name]]

\* the configurations a deployment may hand to New
Configs ==
    {CreateConfig,
     [CreateConfig EXCEPT !.FunctionArn = "arn:aws:lambda:eu-west-1:000000000000:function:xxx:1",
                          !.Region = "eu-west-1", !.AccessKey = "aws-key",
                          !.SecretKey = "@@not-a-key", !.Endpoint = "http://mock"],
     [CreateConfig EXCEPT !.FunctionArn = "fn"]}

(***************************************************************************)
(* The wire envelopes.                                                     *)
(***************************************************************************)
\* the success status of an Invoke result
StatusOK == 200

\* the LambdaRequest literal of ServeHTTP
LambdaRequest(rq, base64Encoded, body) ==
    [HTTPMethod                      |-> rq.Method,
     Path                            |-> rq.Path,
     QueryStringParameters           |-> valuesToMap(ParseQuery(rq.RawQuery)),
     MultiValueQueryStringParameters |-> valuesToMultiMap(ParseQuery(rq.RawQuery)),
     Headers                         |-> headersToMap(rq.Header),
     MultiValueHeaders               |-> headersToMultiMap(rq.Header),
     Body                            |-> body,
     IsBase64Encoded                 |-> base64Encoded]

\* json.Marshal of a LambdaRequest cannot fail (strings, maps of strings and a
\* bool); the payload is kept as the JSON object it denotes
Marshal(request) == [json |-> request]

\* the zero LambdaResponse
ZeroResponse ==
    [StatusCode |-> 0, StatusDescription |-> "", IsBase64Encoded |-> FALSE,
     Headers |-> EmptyMap, MultiValueHeaders |-> EmptyMap, Body |-> <<>>]

\* json.Unmarshal into a LambdaResponse: a payload that is not a JSON object of
\* the right shape is an error; a field the object lacks keeps its zero value
Unmarshal(payload) ==
    IF payload.malformed THEN [err |-> TRUE, resp |-> ZeroResponse]
    ELSE [err |-> FALSE,
          resp |-> [f \in DOMAIN ZeroResponse |->
                        IF f \in DOMAIN payload.object THEN payload.object[f]
                        ELSE ZeroResponse[f]]]

(***************************************************************************)
(* The pure functions, each applied once to an argument drawn from a       *)
(* bounded set. The request-handling variables are idle here.              *)
(***************************************************************************)
ServeIdle ==
    /\ a = None /\ req = <<>> /\ pc = <<>> /\ local = <<>> /\ todo = <<>>
    /\ rw = <<>> /\ log = <<>> /\ consumed = <<>> /\ calls = <<>> /\ fatal = <<>>

Apply(name, result) ==
    /\ fnName = ""
    /\ fnName' = name
    /\ fnOut' = result
    /\ UNCHANGED <<fnIn, serveVars>>

\* ---- value coercion ----------------------------------------------------
SupportedKinds == IntKinds \cup UintKinds \cup FloatKinds \cup {"String"}
UnsupportedKinds == {"Bool", "Struct", "Map"}

ScalarsOf(k) ==
    IF k \in IntKinds THEN {[kind |-> k, v |-> n] : n \in {-42, 7}}
    ELSE IF k \in UintKinds THEN {[kind |-> k, v |-> n] : n \in {0, 42}}
    ELSE IF k \in FloatKinds THEN {[kind |-> k, v |-> n] : n \in {314159, -3125}}
    ELSE IF k = "String" THEN {[kind |-> k, v |-> x] : x \in {"hello", ""}}
    ELSE {[kind |-> k, v |-> None]}

Scalars == UNION {ScalarsOf(k) : k \in SupportedKinds \cup UnsupportedKinds}

\* what a slice of element kind k can hold: values of kind k, anything for
\* []interface{}, slices for a slice of slices
ElementsOf(k) ==
    IF k = "Interface"
    THEN {[kind |-> "Int", v |-> 7], [kind |-> "String", v |-> "hello"],
          [kind |-> "Bool", v |-> None]}
    ELSE IF k = "Slice" THEN {StringSlice(<<"x">>), StringSlice(<<"x", "y">>)}
    ELSE ScalarsOf(k)

Slices ==
    UNION {{[kind |-> "Slice", elem |-> k, items |-> it] :
                it \in SeqsUpTo(ElementsOf(k), MaxSliceLen)} :
            k \in SupportedKinds \cup UnsupportedKinds \cup {"Interface", "Slice"}}

InitCoerce == ServeIdle /\ fnIn \in Scalars \cup Slices /\ fnOut = None /\ fnName = ""

CallValueToString == Apply("valueToString", valueToString(fnIn))

CallValuesToStrings == Apply("valuesToStrings", valuesToStrings(fnIn))

NextCoerce == CallValueToString \/ CallValuesToStrings

SpecCoerce == InitCoerce /\ [][NextCoerce]_vars

\* ---- query parameters and headers ---------------------------------------
ParamNames == {"a", "b", "c"}
ParamValues == {"1", "2"}

\* url.Values and http.Header are both map[string][]string
InitMaps ==
    /\ ServeIdle
    /\ fnIn \in MapsOver(ParamNames, SeqsUpTo(ParamValues, MaxValues))
    /\ fnOut = None /\ fnName = ""

CallValues ==
    Apply("values", [single |-> valuesToMap(fnIn), multi |-> valuesToMultiMap(fnIn)])

CallHeaders ==
    Apply("headers", [single |-> headersToMap(fnIn), multi |-> headersToMultiMap(fnIn)])

NextMaps == CallValues \/ CallHeaders

SpecMaps == InitMaps /\ [][NextMaps]_vars

\* ---- bodyToBase64 --------------------------------------------------------
BodyBytes == {0, 102, 111, 255}

InitBody ==
    /\ ServeIdle
    /\ fnIn \in [ContentLength : -1..MaxBodyLen, Body : SeqsUpTo(BodyBytes, MaxBodyLen)]
    /\ fnOut = None /\ fnName = ""

\* io.Copy either reaches EOF, having copied the whole body, or stops on a
\* read error after some prefix of it
CallBodyToBase64 ==
    \/ Apply("bodyToBase64", bodyToBase64(fnIn, fnIn.Body, FALSE))
    \/ \E n \in 0..Len(fnIn.Body) :
          Apply("bodyToBase64", bodyToBase64(fnIn, SubSeq(fnIn.Body, 1, n), TRUE))

NextBody == CallBodyToBase64

SpecBody == InitBody /\ [][NextBody]_vars

(***************************************************************************)
(* Properties of the pure functions.                                       *)
(***************************************************************************)

\* C1 (SpecMaps): applied to the same url.Values, valuesToMap and
\* valuesToMultiMap put a name with exactly one value in
\* queryStringParameters only, mapped to that value, and a name with two or
\* more values in multiValueQueryStringParameters only, mapped to all its
\* values in order; no name is a key of both maps.
C1_QueryPartition ==
    fnName = "values" =>
        /\ \A n \in DOMAIN fnIn :
              /\ Len(fnIn[n]) = 1 =>
                    /\ n \in DOMAIN fnOut.single
                    /\ fnOut.single[n] = fnIn[n][1]
                    /\ n \notin DOMAIN fnOut.multi
              /\ Len(fnIn[n]) >= 2 =>
                    /\ n \in DOMAIN fnOut.multi
                    /\ fnOut.multi[n] = fnIn[n]
                    /\ n \notin DOMAIN fnOut.single
        /\ DOMAIN fnOut.single \cap DOMAIN fnOut.multi = {}

\* both maps were built from a value map holding a single-valued and a
\* multi-valued name
C1_Witness ==
    /\ fnName = "values"
    /\ \E n, m \in DOMAIN fnIn : Len(fnIn[n]) = 1 /\ Len(fnIn[m]) >= 2
    /\ fnOut.single # EmptyMap /\ fnOut.multi # EmptyMap

\* C2 (SpecMaps): applied to the same http.Header, headersToMap and
\* headersToMultiMap put a name with exactly one value in headers only, a
\* name with two or more values in multiValueHeaders only (values unchanged
\* and in order) and a name with zero values in neither; no name is a key of
\* both maps.
C2_HeaderPartition ==
    fnName = "headers" =>
        /\ \A n \in DOMAIN fnIn :
              /\ Len(fnIn[n]) = 1 =>
                    /\ n \in DOMAIN fnOut.single
                    /\ fnOut.single[n] = fnIn[n][1]
                    /\ n \notin DOMAIN fnOut.multi
              /\ Len(fnIn[n]) >= 2 =>
                    /\ n \in DOMAIN fnOut.multi
                    /\ fnOut.multi[n] = fnIn[n]
                    /\ n \notin DOMAIN fnOut.single
              /\ Len(fnIn[n]) = 0 =>
                    /\ n \notin DOMAIN fnOut.single
                    /\ n \notin DOMAIN fnOut.multi
        /\ DOMAIN fnOut.single \cap DOMAIN fnOut.multi = {}

\* both maps were built from a header set holding a name with no value, a
\* name with one value and a name with several
C2_Witness ==
    /\ fnName = "headers"
    /\ \E n, m, z \in DOMAIN fnIn :
          Len(fnIn[n]) = 1 /\ Len(fnIn[m]) >= 2 /\ Len(fnIn[z]) = 0

\* text is the standard (RFC 4648, padded) base64 encoding of bytes: it has
\* four characters per started group of three bytes, decodes to bytes, and
\* the unused low bits of its last data character are zero
IsStdBase64Of(text, bytes) ==
    LET n == Len(text)
    IN  /\ n = 4 * ((Len(bytes) + 2) \div 3)
        /\ DecodeString(text) = [err |-> FALSE, buf |-> bytes]
        /\ Len(bytes) % 3 = 1 => DecodeChar(text[n - 2]) % 16 = 0
        /\ Len(bytes) % 3 = 2 => DecodeChar(text[n - 1]) % 4 = 0

\* C3 (SpecBody): bodyToBase64 returns (false, "") exactly when
\* ContentLength is zero; for any other ContentLength, negative included, it
\* returns true and the standard base64 encoding of the whole body. The
\* RFC 4648 vectors "f", "fo", "foo" encode to "Zg==", "Zm8=", "Zm9v".
C3_BodyEncoding ==
    (fnName = "bodyToBase64" /\ ~fnOut.panic) =>
        /\ (~fnOut.base64Encoded /\ fnOut.body = <<>>) <=> fnIn.ContentLength = 0
        /\ fnIn.ContentLength # 0 =>
              /\ fnOut.base64Encoded
              /\ IsStdBase64Of(fnOut.body, fnIn.Body)
              /\ fnIn.Body = <<102>> => fnOut.body = <<90, 103, 61, 61>>
              /\ fnIn.Body = <<102, 111>> => fnOut.body = <<90, 109, 56, 61>>
              /\ fnIn.Body = <<102, 111, 111>> => fnOut.body = <<90, 109, 57, 118>>

\* a body of unknown length (ContentLength -1) was read and encoded
C3_Witness ==
    /\ fnName = "bodyToBase64" /\ ~fnOut.panic
    /\ fnIn.ContentLength = -1 /\ Len(fnIn.Body) = 2
    /\ fnOut.base64Encoded /\ Len(fnOut.body) = 4

\* C7 (SpecCoerce): for a slice whose element kind is a signed integer, an
\* unsigned integer of any width (64-bit included), a float or a string,
\* valuesToStrings succeeds and returns, in order, the valueToString of each
\* element; a slice of any other element kind, and a scalar of any other
\* kind, is rejected.
C7_CoercionOfSupportedKinds ==
    /\ (fnName = "valuesToStrings" /\ fnIn.kind = "Slice") =>
          IF fnIn.elem \in SupportedKinds
          THEN /\ fnOut.valid
               /\ Len(fnOut.v) = Len(fnIn.items)
               /\ \A i \in 1..Len(fnIn.items) :
                     fnOut.v[i] = valueToString(fnIn.items[i]).s
          ELSE ~fnOut.valid
    /\ (fnName = "valueToString" /\ fnIn.kind \notin SupportedKinds \cup {"Slice"}) =>
          ~fnOut.valid
    /\ (fnName = "valueToString" /\ fnIn.kind = "Slice"
            /\ fnIn.elem \notin SupportedKinds) => ~fnOut.valid

\* C7 with []uint64 left out: what valuesToStrings does guarantee
C7_ExceptUint64Slices ==
    (fnIn.kind = "Slice" => fnIn.elem # "Uint64") => C7_CoercionOfSupportedKinds

\* C8 (SpecMaps): every entry of multiValueQueryStringParameters and of
\* multiValueHeaders is a sequence of at least two values, whatever the value
\* map or header set, a name with an empty sequence of values included.
C8_MultiEntriesHaveTwoValues ==
    fnName \in {"values", "headers"} =>
        \A n \in DOMAIN fnOut.multi : Len(fnOut.multi[n]) >= 2

\* C8 for the header set alone: headersToMultiMap keeps only names with two
\* or more values
C8_HeadersOnly ==
    fnName = "headers" => \A n \in DOMAIN fnOut.multi : Len(fnOut.multi[n]) >= 2

(***************************************************************************)
(* ServeHTTP, one process per request in flight. Each request owns its     *)
(* *http.Request, its http.ResponseWriter and its locals; the handler a is *)
(* the only value the requests share. A panic ends the one ServeHTTP call  *)
(* it happens in: the hosting server recovers it per request.              *)
(***************************************************************************)
Requests == {"r1", "r2"}

FreshLocal == [base64Encoded |-> FALSE, body |-> <<>>, request |-> None,
               result |-> None, resp |-> None]

FreshWriter == [Header |-> EmptyMap, Code |-> 0, Body |-> <<>>]

NoKeys == [set |-> {}, add |-> {}]

\* panic(err) in request r: the call is abandoned where it stands
Panic_ProcessWide(r, cause) ==
    /\ pc' = [q \in Requests |-> "panicked"]
    /\ fatal' = [q \in Requests |-> IF q = r \/ fatal[q] = "" THEN cause ELSE fatal[q]]

Panic(r, cause) ==
    /\ pc' = [pc EXCEPT ![r] = "panicked"]
    /\ fatal' = [fatal EXCEPT ![r] = cause]

\* line 110: base64Encoded, body := bodyToBase64(req). io.Copy reaches EOF
\* after the whole body or fails after a prefix of it; with ContentLength 0
\* the body is not read.
BodyToBase64Step(r) ==
    /\ pc[r] = "bodyToBase64"
    /\ \E copyErr \in BOOLEAN, n \in 0..Len(req[r].Body) :
          /\ copyErr \/ n = Len(req[r].Body)
          /\ req[r].ContentLength = 0 => ~copyErr
          /\ LET copied == SubSeq(req[r].Body, 1, n)
                 out    == bodyToBase64(req[r], copied, copyErr)
             IN  /\ consumed' = [consumed EXCEPT
                                    ![r] = IF req[r].ContentLength # 0 THEN copied ELSE <<>>]
                 /\ IF out.panic
                    THEN /\ Panic(r, "bodyRead")
                         /\ UNCHANGED local
                    ELSE /\ pc' = [pc EXCEPT ![r] = "invoke"]
                         /\ local' = [local EXCEPT ![r].base64Encoded = out.base64Encoded,
                                                   ![r].body = out.body]
                         /\ UNCHANGED fatal
    /\ UNCHANGED <<a, req, todo, rw, log, calls, fnVars>>

\* lines 111-120 and 174-182: the envelope is built and marshalled, and
\* a.client.Invoke is called with the handler's function name
InvokeCall(r) ==
    /\ pc[r] = "invoke"
    /\ LET request == LambdaRequest(req[r], local[r].base64Encoded, local[r].body)
       IN  /\ local' = [local EXCEPT ![r].request = request]
           /\ calls' = Append(calls, [by |-> r, FunctionName |-> a.functionArn,
                                      Payload |-> Marshal(request)])
    /\ pc' = [pc EXCEPT ![r] = "awaitInvoke"]
    /\ UNCHANGED <<a, req, todo, rw, log, consumed, fatal, fnVars>>

\* lines 183-197: the result of Invoke is an error, a status other than 200,
\* or a payload that json.Unmarshal accepts or not
InvokeReturn_Retries(r, result) ==
    /\ pc[r] = "awaitInvoke"
    /\ local' = [local EXCEPT ![r].result = result,
                              ![r].resp = IF result.err \/ result.StatusCode # StatusOK
                                             \/ Unmarshal(result.Payload).err
                                          THEN None ELSE Unmarshal(result.Payload).resp]
    /\ IF result.err
       THEN pc' = [pc EXCEPT ![r] = "invoke"] /\ UNCHANGED fatal
       ELSE IF result.StatusCode # StatusOK THEN Panic(r, "invokeStatus")
       ELSE IF Unmarshal(result.Payload).err THEN Panic(r, "unmarshal")
       ELSE pc' = [pc EXCEPT ![r] = "decode"] /\ UNCHANGED fatal
    /\ UNCHANGED <<a, req, todo, rw, log, consumed, calls, fnVars>>

InvokeReturn_WritesBadGateway(r, result) ==
    /\ pc[r] = "awaitInvoke"
    /\ local' = [local EXCEPT ![r].result = result,
                              ![r].resp = IF result.err \/ result.StatusCode # StatusOK
                                             \/ Unmarshal(result.Payload).err
                                          THEN None ELSE Unmarshal(result.Payload).resp]
    /\ IF result.err THEN Panic(r, "invokeError")
       ELSE IF result.StatusCode # StatusOK THEN Panic(r, "invokeStatus")
       ELSE IF Unmarshal(result.Payload).err THEN Panic(r, "unmarshal")
       ELSE pc' = [pc EXCEPT ![r] = "decode"] /\ UNCHANGED fatal
    /\ IF ~result.err /\ result.StatusCode # StatusOK
       THEN /\ rw' = [rw EXCEPT ![r].Code = 502]
            /\ log' = [log EXCEPT ![r] = Append(@, <<"WriteHeader", 502>>)]
       ELSE UNCHANGED <<rw, log>>
    /\ UNCHANGED <<a, req, todo, consumed, calls, fnVars>>

InvokeReturn(r, result) ==
    /\ pc[r] = "awaitInvoke"
    /\ local' = [local EXCEPT ![r].result = result,
                              ![r].resp = IF result.err \/ result.StatusCode # StatusOK
                                             \/ Unmarshal(result.Payload).err
                                          THEN None ELSE Unmarshal(result.Payload).resp]
    /\ IF result.err THEN Panic(r, "invokeError")
       ELSE IF result.StatusCode # StatusOK THEN Panic(r, "invokeStatus")
       ELSE IF Unmarshal(result.Payload).err THEN Panic(r, "unmarshal")
       ELSE pc' = [pc EXCEPT ![r] = "decode"] /\ UNCHANGED fatal
    /\ UNCHANGED <<a, req, todo, rw, log, consumed, calls, fnVars>>

\* lines 122-130: body = resp.Body, base64-decoded when the envelope says so
DecodeStep(r) ==
    /\ pc[r] = "decode"
    /\ LET resp == local[r].resp
           dec  == DecodeString(resp.Body)
       IN  IF resp.IsBase64Encoded /\ dec.err
           THEN /\ Panic(r, "base64Decode")
                /\ UNCHANGED <<local, todo>>
           ELSE /\ local' = [local EXCEPT
                                ![r].body = IF resp.IsBase64Encoded THEN dec.buf ELSE resp.Body]
                /\ todo' = [todo EXCEPT ![r] = [set |-> DOMAIN resp.Headers,
                                                add |-> DOMAIN resp.MultiValueHeaders]]
                /\ pc' = [pc EXCEPT ![r] = "project"]
                /\ UNCHANGED fatal
    /\ UNCHANGED <<a, req, rw, log, consumed, calls, fnVars>>

\* lines 132-134: one iteration of the range over resp.Headers; Go visits the
\* keys of a map in no fixed order
SetHeaderStep(r) ==
    /\ pc[r] = "project"
    /\ \E key \in todo[r].set :
          LET value == local[r].resp.Headers[key]
          IN  /\ rw' = [rw EXCEPT ![r].Header = HeaderSet(@, key, value)]
              /\ log' = [log EXCEPT ![r] = Append(@, <<"Set", key, value>>)]
              /\ todo' = [todo EXCEPT ![r].set = @ \ {key}]
    /\ UNCHANGED <<a, req, pc, local, consumed, calls, fatal, fnVars>>

\* lines 136-140: one iteration of the range over resp.MultiValueHeaders, its
\* inner loop adding the values of the key in order
AddHeadersStep_UsesSet(r) ==
    /\ pc[r] = "project"
    /\ todo[r].set = {}
    /\ \E key \in todo[r].add :
          LET values == local[r].resp.MultiValueHeaders[key]
          IN  /\ rw' = [rw EXCEPT ![r].Header =
                            IF values = <<>> THEN @ ELSE HeaderSet(@, key, values[Len(values)])]
              /\ log' = [log EXCEPT ![r] =
                            @ \o [i \in 1..Len(values) |-> <<"Add", key, values[i]>>]]
              /\ todo' = [todo EXCEPT ![r].add = @ \ {key}]
    /\ UNCHANGED <<a, req, pc, local, consumed, calls, fatal, fnVars>>

AddHeadersStep(r) ==
    /\ pc[r] = "project"
    /\ todo[r].set = {}
    /\ \E key \in todo[r].add :
          LET values == local[r].resp.MultiValueHeaders[key]
          IN  /\ rw' = [rw EXCEPT ![r].Header = HeaderAddAll(@, key, values)]
              /\ log' = [log EXCEPT ![r] =
                            @ \o [i \in 1..Len(values) |-> <<"Add", key, values[i]>>]]
              /\ todo' = [todo EXCEPT ![r].add = @ \ {key}]
    /\ UNCHANGED <<a, req, pc, local, consumed, calls, fatal, fnVars>>

\* line 142: rw.WriteHeader(resp.StatusCode). net/http's writers panic on a
\* code outside 100..999 (checkWriteHeaderCode).
WriteHeaderStep_BeforeMultiHeaders(r) ==
    /\ pc[r] = "project"
    /\ todo[r].set = {}
    /\ LET code == local[r].resp.StatusCode
       IN  /\ log' = [log EXCEPT ![r] = Append(@, <<"WriteHeader", code>>)]
           /\ IF code < 100 \/ code > 999
              THEN Panic(r, "writeHeader") /\ UNCHANGED rw
              ELSE /\ rw' = [rw EXCEPT ![r].Code = code]
                   /\ pc' = [pc EXCEPT ![r] = IF todo[r].add = {} THEN "write" ELSE "project"]
                   /\ UNCHANGED fatal
    /\ UNCHANGED <<a, req, local, todo, consumed, calls, fnVars>>

WriteHeaderStep(r) ==
    /\ pc[r] = "project"
    /\ todo[r].set = {} /\ todo[r].add = {}
    /\ LET code == local[r].resp.StatusCode
       IN  /\ log' = [log EXCEPT ![r] = Append(@, <<"WriteHeader", code>>)]
           /\ IF code < 100 \/ code > 999
              THEN Panic(r, "writeHeader") /\ UNCHANGED rw
              ELSE /\ rw' = [rw EXCEPT ![r].Code = code]
                   /\ pc' = [pc EXCEPT ![r] = "write"]
                   /\ UNCHANGED fatal
    /\ UNCHANGED <<a, req, local, todo, consumed, calls, fnVars>>

\* lines 143-146: rw.Write([]byte(body)) writes the whole body, or returns an
\* error having written n of its bytes
WriteStep(r) ==
    /\ pc[r] = "write"
    /\ log' = [log EXCEPT ![r] = Append(@, <<"Write", local[r].body>>)]
    /\ \E err \in BOOLEAN, n \in 0..Len(local[r].body) :
          /\ err \/ n = Len(local[r].body)
          /\ rw' = [rw EXCEPT ![r].Body = @ \o SubSeq(local[r].body, 1, n)]
          /\ IF err THEN Panic(r, "write")
             ELSE pc' = [pc EXCEPT ![r] = "done"] /\ UNCHANGED fatal
    /\ UNCHANGED <<a, req, local, todo, consumed, calls, fnVars>>

(***************************************************************************)
(* Inbound requests and backend results the requests are run on.           *)
(***************************************************************************)
\* the request of TestInvoke:
\* POST /this/path/is/not/empty?a=1&b=2&c=3&c=4&d[]=5&d[]=6, body "This is the body"
TestInvokeRequest ==
    [Method |-> "POST", Path |-> "/this/path/is/not/empty",
     RawQuery |-> <<<<"a", "1">>, <<"b", "2">>, <<"c", "3">>, <<"c", "4">>,
                    <<"d[]", "5">>, <<"d[]", "6">>>>,
     Header |-> [n \in {"Content-Type", "X-Test"} |->
                    IF n = "X-Test" THEN <<"foo", "foobar">> ELSE <<"text/plain">>],
     ContentLength |-> 16,
     Body |-> <<84, 104, 105, 115, 32, 105, 115, 32, 116, 104, 101, 32, 98, 111, 100, 121>>]

\* a request with no query string, no header and no body
BareRequest ==
    [Method |-> "GET", Path |-> "/", RawQuery |-> <<>>, Header |-> EmptyMap,
     ContentLength |-> 0, Body |-> <<>>]

\* a chunked upload: the length is unknown (-1)
ChunkedRequest ==
    [Method |-> "PUT", Path |-> "/upload", RawQuery |-> <<<<"a", "1">>>>,
     Header |-> [n \in {"Transfer-Encoding"} |-> <<"chunked">>],
     ContentLength |-> -1, Body |-> <<77, 97>>]

\* A request served by net/http declares length 0 only when it has no body.
InboundRequests == {TestInvokeRequest, BareRequest, ChunkedRequest}

\* header names of a response envelope
NameLowerXA == <<"x", "-", "a">>
NameXA == <<"X", "-", "A">>
NameXB == <<"X", "-", "B">>

Object(fields) == [malformed |-> FALSE, object |-> fields]

InvokeFailed == [err |-> TRUE, StatusCode |-> 0, Payload |-> Object(EmptyMap)]

Returned(status, payload) == [err |-> FALSE, StatusCode |-> status, Payload |-> payload]

\* "TQ==" is the base64 text of "M"; "T" is no base64 text
TextTQ == <<84, 81, 61, 61>>
TextT == <<84>>
TextHi == <<104, 105>>

\* the results Invoke hands to the concurrent requests
InvokeResults ==
    {InvokeFailed,
     Returned(500, Object(EmptyMap)),
     Returned(200, [malformed |-> TRUE, object |-> EmptyMap]),
     \* the reply of TestInvoke's mock server: {"statusCode": 500}
     Returned(200, Object([StatusCode |-> 500])),
     \* a Lambda function error: the payload carries no statusCode
     Returned(200, Object([Headers |-> [n \in {NameXA} |-> "1"]])),
     Returned(200, Object([StatusCode |-> 200, IsBase64Encoded |-> TRUE, Body |-> TextT,
                           Headers |-> [n \in {NameXA} |-> "1"]])),
     Returned(200, Object([StatusCode |-> 200, IsBase64Encoded |-> TRUE, Body |-> TextTQ,
                           Headers |-> [n \in {NameLowerXA, NameXB} |-> "1"],
                           MultiValueHeaders |-> [n \in {NameXA} |-> <<"2", "3">>]]))}

\* every envelope over a small alphabet, for the projection run alone; two of
\* the names differ only in case
EnvelopeHeaders ==
    {h \in MapsOver({NameLowerXA, NameXA, NameXB}, {"1", "2"}) :
        \A n \in DOMAIN h : h[n] = (IF n = NameXA THEN "2" ELSE "1")}
EnvelopeMultiHeaders ==
    {m \in MapsOver({NameLowerXA, NameXA}, {<<>>, <<"3">>, <<"3", "4">>, <<"5", "6">>}) :
        \A n \in DOMAIN m : m[n] = <<"5", "6">> <=> n = NameXA}
EnvelopeBodies ==
    {[IsBase64Encoded |-> FALSE, Body |-> <<>>],
     [IsBase64Encoded |-> FALSE, Body |-> TextHi],
     [IsBase64Encoded |-> TRUE, Body |-> TextTQ],
     [IsBase64Encoded |-> TRUE, Body |-> TextT]}

Envelopes ==
    {[StatusCode |-> c, StatusDescription |-> "", IsBase64Encoded |-> b.IsBase64Encoded,
      Headers |-> h, MultiValueHeaders |-> m, Body |-> b.Body] :
        c \in {0, 200, 500}, h \in EnvelopeHeaders, m \in EnvelopeMultiHeaders,
        b \in EnvelopeBodies}

ProjectResults ==
    {InvokeFailed, Returned(500, Object(EmptyMap)),
     Returned(200, [malformed |-> TRUE, object |-> EmptyMap])}
        \cup {Returned(200, Object(e)) : e \in Envelopes}

(***************************************************************************)
(* The specifications of request handling.                                 *)
(***************************************************************************)
FnIdle == fnIn = None /\ fnOut = None /\ fnName = ""

\* the state once New has returned a handler and the requests have arrived
Init ==
    /\ \E config \in Configs, name \in {"lambda-plugin"} :
          /\ ~New("next", config, name).err
          /\ a = New("next", config, name).handler
    /\ req \in [Requests -> InboundRequests]
    /\ pc = [r \in Requests |-> "bodyToBase64"]
    /\ local = [r \in Requests |-> FreshLocal]
    /\ todo = [r \in Requests |-> NoKeys]
    /\ rw = [r \in Requests |-> FreshWriter]
    /\ log = [r \in Requests |-> <<>>]
    /\ consumed = [r \in Requests |-> <<>>]
    /\ calls = <<>>
    /\ fatal = [r \in Requests |-> ""]
    /\ FnIdle

ServeHTTP(r, results) ==
    \/ BodyToBase64Step(r)
    \/ InvokeCall(r)
    \/ \E result \in results : InvokeReturn(r, result)
    \/ DecodeStep(r)
    \/ SetHeaderStep(r)
    \/ AddHeadersStep(r)
    \/ WriteHeaderStep(r)
    \/ WriteStep(r)

\* the requests in flight interleave freely
Next == \E r \in Requests : ServeHTTP(r, InvokeResults)

Spec == Init /\ [][Next]_vars

\* one request served alone, on every envelope
InitProject == Init /\ req["r2"] = BareRequest /\ req["r1"] = ChunkedRequest

NextProject == ServeHTTP("r1", ProjectResults)

SpecProject == InitProject /\ [][NextProject]_vars

(***************************************************************************)
(* Properties of request handling.                                         *)
(***************************************************************************)
CallsBy(r) == {i \in DOMAIN calls : calls[i].by = r}

\* the fatal conditions that precede the projection of the response
EarlyFatal == {"bodyRead", "invokeError", "invokeStatus", "unmarshal", "base64Decode"}

\* C4 (Spec): when ServeHTTP is aborted by a body read failure, an Invoke
\* error, an Invoke status other than 200, a payload that does not
\* deserialize or a base64 decode failure, the outbound response is
\* untouched: no header set or added, no status written, no body byte written.
C4_EarlyFatalLeavesResponseUntouched ==
    \A r \in Requests :
        fatal[r] \in EarlyFatal => rw[r] = FreshWriter /\ log[r] = <<>>

\* one request died decoding a body whose envelope carried headers, the other
\* on a status other than 200
C4_Witness ==
    \E r, q \in Requests :
        /\ fatal[r] = "base64Decode" /\ local[r].resp.Headers # EmptyMap
        /\ fatal[q] = "invokeStatus"

\* the events of log from position i to position j
Events(l, i, j) == {l[n] : n \in i..j}

\* C5 (Spec): a ServeHTTP call that completes has made its calls on the
\* response in this order: a Set for every entry of headers, then an Add for
\* every value of multiValueHeaders (the values of a name in envelope order),
\* then one WriteHeader with the envelope's statusCode, then one Write; and
\* in no call, completed or not, does anything follow the Write.
C5_ProjectionOrder ==
    \A r \in Requests :
        /\ \A n \in 1..Len(log[r]) : log[r][n][1] = "Write" => n = Len(log[r])
        /\ pc[r] = "done" =>
              LET resp == local[r].resp
                  l    == log[r]
                  i    == Cardinality(DOMAIN resp.Headers)
                  j    == Len(l) - 2
              IN  /\ i <= j
                  /\ Events(l, 1, i) = {<<"Set", k, resp.Headers[k]>> : k \in DOMAIN resp.Headers}
                  /\ \A n \in (i + 1)..j : l[n][1] = "Add"
                  /\ \A k \in DOMAIN resp.MultiValueHeaders :
                        LET adds == SelectSeq(SubSeq(l, i + 1, j), LAMBDA e : e[2] = k)
                        IN  [n \in 1..Len(adds) |-> adds[n][3]] = resp.MultiValueHeaders[k]
                  /\ \A n \in (i + 1)..j : l[n][2] \in DOMAIN resp.MultiValueHeaders
                  /\ l[j + 1] = <<"WriteHeader", resp.StatusCode>>
                  /\ l[j + 2] = <<"Write", local[r].body>>

\* a call completed after two Sets and two Adds
C5_Witness ==
    \E r \in Requests :
        /\ pc[r] = "done"
        /\ Cardinality(DOMAIN local[r].resp.Headers) = 2
        /\ Len(log[r]) = 6

\* C9 (Spec): one ServeHTTP call invokes the backend at most once, an error
\* or a status other than 200 is not retried, and Invoke is called only once
\* the inbound body has been read to its end: a call whose body read fails
\* never invokes.
C9_InvokeOnceAfterBody ==
    \A r \in Requests :
        /\ Cardinality(CallsBy(r)) <= 1
        /\ CallsBy(r) # {} =>
              /\ fatal[r] # "bodyRead"
              /\ req[r].ContentLength # 0 => consumed[r] = req[r].Body
        /\ fatal[r] = "bodyRead" => CallsBy(r) = {}
        /\ fatal[r] \in {"invokeError", "invokeStatus"} => Cardinality(CallsBy(r)) = 1

\* one request failed in Invoke after reading its body, the other failed
\* reading its body
C9_Witness ==
    \E r, q \in Requests :
        /\ fatal[r] = "invokeError" /\ req[r].ContentLength # 0 /\ CallsBy(r) # {}
        /\ fatal[q] = "bodyRead"

\* everything request r owns
Slice(r) == <<req[r], pc[r], local[r], todo[r], rw[r], log[r], consumed[r], fatal[r]>>

\* the envelope and the response of r are those of its own request and result
OwnInputsOnly(r) ==
    /\ local[r].request # None =>
          /\ local[r].request.HTTPMethod = req[r].Method
          /\ local[r].request.Path = req[r].Path
          /\ DOMAIN local[r].request.Headers \cup DOMAIN local[r].request.MultiValueHeaders
                = DOMAIN req[r].Header
          /\ local[r].request.IsBase64Encoded = (req[r].ContentLength # 0)
          /\ local[r].request.IsBase64Encoded =>
                DecodeString(local[r].request.Body).buf = req[r].Body
          /\ \A i \in CallsBy(r) :
                /\ calls[i].Payload = Marshal(local[r].request)
                /\ calls[i].FunctionName = a.functionArn
    /\ pc[r] = "done" =>
          /\ rw[r].Code = Unmarshal(local[r].result.Payload).resp.StatusCode
          /\ log[r][Len(log[r])][2] = local[r].body
          /\ local[r].body =
                IF Unmarshal(local[r].result.Payload).resp.IsBase64Encoded
                THEN DecodeString(Unmarshal(local[r].result.Payload).resp.Body).buf
                ELSE Unmarshal(local[r].result.Payload).resp.Body

\* C10 (Spec): under every interleaving of the requests the handler keeps the
\* fields New gave it, a step of one request (a panic included) changes
\* nothing another request owns, and the envelope and outbound response of a
\* request are those of its own input and its own backend result.
C10_RequestIsolation ==
    /\ [][/\ a' = a
          /\ \A r \in Requests :
                Slice(r)' # Slice(r) => \A q \in Requests \ {r} : Slice(q)' = Slice(q)]_vars
    /\ [](\A r \in Requests : OwnInputsOnly(r))

\* one request was aborted while the other, on a different input, completed
C10_Witness ==
    \E r, q \in Requests :
        /\ fatal[r] # "" /\ pc[q] = "done" /\ req[r] # req[q]
        /\ local[r].request # None

\* the keys of map m that http.Header stores under the canonical name n
KeysFor(m, n) == {k \in DOMAIN m : CanonicalMIMEHeaderKey(k) = n}

\* the orders in which a range loop may visit the keys S
Orderings(S) ==
    {o \in [1..Cardinality(S) -> S] : \A i, j \in 1..Cardinality(S) : o[i] = o[j] => i = j}

\* the status and the body written are those of the envelope
StatusAndBodyProjected(r) ==
    /\ rw[r].Code = local[r].resp.StatusCode
    /\ rw[r].Body = IF local[r].resp.IsBase64Encoded
                    THEN DecodeString(local[r].resp.Body).buf ELSE local[r].resp.Body

\* C6 as stated (SpecProject): once the envelope is projected onto a response
\* whose header set was empty, the values of each envelope header name are
\* its single value from headers, if it is a key there, followed by its
\* values in multiValueHeaders, if it is a key there; a name of neither map
\* has no values, so {statusCode: 500} gives status 500, no body, no header.
C6_HeaderValuesAsStated ==
    pc["r1"] = "done" =>
        LET resp == local["r1"].resp
            h    == rw["r1"].Header
        IN  /\ \A k \in DOMAIN resp.Headers \cup DOMAIN resp.MultiValueHeaders :
                  HeaderValues(h, k) =
                      (IF k \in DOMAIN resp.Headers THEN <<resp.Headers[k]>> ELSE <<>>)
                          \o (IF k \in DOMAIN resp.MultiValueHeaders
                              THEN resp.MultiValueHeaders[k] ELSE <<>>)
            /\ \A n \in DOMAIN h :
                  KeysFor(resp.Headers, n) \cup KeysFor(resp.MultiValueHeaders, n) # {}
            /\ StatusAndBodyProjected("r1")

\* C6 amended (SpecProject): names are taken in their canonical form. The
\* values of a canonical name are one value of the headers entries stored
\* under it, if there is any, followed by the values of the multiValueHeaders
\* entries stored under it, each entry's values together and in envelope
\* order; a canonical name no entry is stored under has no values.
C6_HeaderValuesByCanonicalName ==
    pc["r1"] = "done" =>
        LET resp  == local["r1"].resp
            h     == rw["r1"].Header
            names == DOMAIN h \cup {CanonicalMIMEHeaderKey(k) :
                        k \in DOMAIN resp.Headers \cup DOMAIN resp.MultiValueHeaders}
        IN  /\ \A n \in names :
                  \E o \in Orderings(KeysFor(resp.MultiValueHeaders, n)) :
                      LET multi == Flatten([i \in DOMAIN o |-> resp.MultiValueHeaders[o[i]]])
                      IN  \/ /\ KeysFor(resp.Headers, n) = {}
                             /\ HeaderValues(h, n) = multi
                          \/ \E k \in KeysFor(resp.Headers, n) :
                                HeaderValues(h, n) = <<resp.Headers[k]>> \o multi
            /\ \A n \in DOMAIN h : h[n] # <<>>
            /\ StatusAndBodyProjected("r1")

\* an envelope was projected in which two keys of headers, and two keys of
\* multiValueHeaders, differ only in case
C6_Witness ==
    /\ pc["r1"] = "done"
    /\ {NameLowerXA, NameXA} \subseteq DOMAIN local["r1"].resp.Headers
    /\ {NameLowerXA, NameXA} \subseteq DOMAIN local["r1"].resp.MultiValueHeaders
    /\ Len(local["r1"].resp.MultiValueHeaders[NameLowerXA]) = 2

\* C6 as stated holds of every envelope no two of whose header names differ
\* only in case
C6_AsStatedWithoutCaseClash ==
    LET resp == local["r1"].resp
        keys == DOMAIN resp.Headers \cup DOMAIN resp.MultiValueHeaders
    IN  (pc["r1"] = "done"
            /\ \A k1, k2 \in keys :
                  CanonicalMIMEHeaderKey(k1) = CanonicalMIMEHeaderKey(k2) => k1 = k2)
        => C6_HeaderValuesAsStated

=============================================================================
